---- MODULE Spec2Model ----
(***************************************************************************)
(* A model of the bloom filter library in src/src/lib.rs: the exclusive    *)
(* store BloomFilter, the reader-writer-locked store ThreadSafeBF and the  *)
(* lock-free store AtomicBloomFilter, used by a small number of threads.   *)
(*                                                                         *)
(* One behaviour constructs one store (New) and then lets the threads call *)
(* set, test and (exclusive store only) reset.  A call is a sequence of    *)
(* steps of its thread: the call itself, for ThreadSafeBF the acquisition  *)
(* of the lock, one step per iteration of the `for i in 0..num_hashes`     *)
(* loop, and the return.  Steps of different threads interleave freely,    *)
(* subject to the lock (ThreadSafeBF) or to Rust's borrow rules            *)
(* (BloomFilter: `&mut self` for set and reset, `&self` for test).         *)
(*                                                                         *)
(* The cells of AtomicBloomFilter are AtomicBool accessed with             *)
(* Ordering::Relaxed: every store and load is one atomic step on one cell, *)
(* and a call that begins after another call has returned is taken to      *)
(* happen after it, so that per-cell coherence makes its loads see that    *)
(* call's stores.                                                          *)
(***************************************************************************)
EXTENDS Integers, Sequences, FiniteSets

\* ------------------------------------------------------------- bounds
MaxSize == 2
MaxHashes == 2
NumThreads == 2

Threads == 1..NumThreads
Items == {"foo", "baz"}
Variants == {"BloomFilter", "ThreadSafeBF", "AtomicBloomFilter"}

VARIABLES
    variant,      \* which store was constructed; "none" before construction
    size,         \* field size
    num_hashes,   \* field num_hashes
    bit_array,    \* field bit_array: a function 0..size-1 -> BOOLEAN
    writer,       \* RwLock: the thread holding the write guard, 0 when none
    readers,      \* RwLock: the threads holding a read guard
    poisoned,     \* RwLock: the poison flag
    pc,           \* per thread: "idle", "wait" (at the lock), "run", "dead"
    op,           \* per thread: the current or last call
    item,         \* per thread: the argument of the current or last call
    i,            \* per thread: the loop variable i of set / test
    ret,          \* per thread: what the last call returned
    since,        \* per thread, history: "set" when the test began after a set
                  \* of its item had returned, "reset" when it began after a
                  \* reset had wiped its item and before any later set
    inserted,     \* history: items whose set has returned since the last reset
    cleared       \* history: items inserted before the last reset, no set since

vars == <<variant, size, num_hashes, bit_array, writer, readers, poisoned,
          pc, op, item, i, ret, since, inserted, cleared>>

\* ------------------------------------------------------------ hashing

\* The first 8 bytes of SHA-256(item.as_bytes() ++ i.to_le_bytes()), usize
\* being 8 bytes wide, tabulated for the items and indices of the model.
Sha256First8(it, n) ==
    CASE it = "foo" ->
           <<  <<67, 196, 164, 24, 14, 182, 240, 214>>,
               <<135, 114, 209, 11, 188, 182, 84, 72>>,
               <<100, 15, 208, 20, 43, 33, 124, 133>>,
               <<167, 16, 60, 153, 237, 212, 196, 213>> >>[n + 1]
      [] it = "baz" ->
           <<  <<164, 70, 162, 132, 15, 180, 55, 164>>,
               <<153, 90, 131, 71, 192, 174, 76, 217>>,
               <<126, 180, 163, 46, 129, 91, 187, 174>>,
               <<68, 154, 110, 254, 25, 199, 106, 213>> >>[n + 1]

\* usize::from_le_bytes(hash_val) % m for m > 0: byte j (1-based) weighs
\* 256^(j-1); the residue is folded from the most significant byte down,
\* which keeps every intermediate value below 256 * m.
RECURSIVE LeResidue(_, _, _)
LeResidue(hash_val, j, m) ==
    IF j > Len(hash_val) THEN 0
    ELSE (LeResidue(hash_val, j + 1, m) * 256 + hash_val[j]) % m

\* A reduction that is off by one: `% (self.size + 1)`.
from_le_bytes_mod_offByOne(hash_val, m) == LeResidue(hash_val, 1, m + 1)

from_le_bytes_mod(hash_val, m) == LeResidue(hash_val, 1, m)

\* `% self.size` panics when size is 0.
HashPanics == size = 0

\* BloomFilter::hash
BloomFilter_hash(it, n) == from_le_bytes_mod(Sha256First8(it, n), size)

\* A hash that leaves `hasher.update(i.to_le_bytes())` out.
AtomicBloomFilter_hash_unsalted(it, n) ==
    from_le_bytes_mod(Sha256First8(it, 0), size)

\* AtomicBloomFilter::hash
AtomicBloomFilter_hash(it, n) == from_le_bytes_mod(Sha256First8(it, n), size)

hash(it, n) ==
    IF variant = "AtomicBloomFilter" THEN AtomicBloomFilter_hash(it, n)
    ELSE BloomFilter_hash(it, n)

\* ------------------------------------------------- the bodies of the loops

\* A loop written `0..self.num_hashes - 1`.
LoopRuns_skipsLast(n) == n < num_hashes - 1

\* A loop written `0..=self.num_hashes`.
LoopRuns_inclusive(n) == n <= num_hashes

\* `for i in 0..self.num_hashes`: whether iteration n runs.
LoopRuns(n) == n < num_hashes

\* A store at a fixed index.
StoreTrue_first(arr, idx) == [arr EXCEPT ![0] = TRUE]

\* A store that flips the cell instead of setting it.
StoreTrue_toggle(arr, idx) == [arr EXCEPT ![idx] = ~arr[idx]]

\* self.bit_array[idx] = true  /  self.bit_array[idx].store(true, Relaxed)
StoreTrue(arr, idx) == [arr EXCEPT ![idx] = TRUE]

\* A check that lost its negation.
CellUnset_inverted(arr, idx) == arr[idx]

\* !self.bit_array[idx]  /  !self.bit_array[idx].load(Relaxed)
CellUnset(arr, idx) == ~arr[idx]

\* A fill that starts one cell late.
FillFalse_skipFirst(arr) == [c \in DOMAIN arr |-> IF c = 0 THEN arr[c] ELSE FALSE]

\* Indexing `self.bit_array[idx]` panics when idx is not below the length.
IndexPanics(arr, idx) == idx \notin DOMAIN arr

\* self.bit_array.fill(false)
FillFalse(arr) == [c \in DOMAIN arr |-> FALSE]

\* vec![false; size]  /  (0..size).map(|_| AtomicBool::new(false)).collect()
NewArray(s) == [c \in 0..(s - 1) |-> FALSE]

\* ---------------------------------------------------------- the lock

\* RwLock::write() is granted when nobody holds a guard.
WriteGrantable == writer = 0 /\ readers = {}

\* A read lock that does not wait for the writer.
ReadGrantable_always == TRUE

\* RwLock::read() is granted when no writer holds the guard.
ReadGrantable == writer = 0

\* A guard that is not dropped when its thread panics.
Release_leakOnPanic(t, panicking) ==
    IF panicking
    THEN UNCHANGED <<writer, readers, poisoned>>
    ELSE /\ writer' = IF writer = t THEN 0 ELSE writer
         /\ readers' = readers \ {t}
         /\ UNCHANGED poisoned

\* Dropping the guard of thread t; a write guard dropped while its thread
\* panics poisons the lock.
Release(t, panicking) ==
    /\ writer' = IF writer = t THEN 0 ELSE writer
    /\ readers' = readers \ {t}
    /\ poisoned' = (poisoned \/ (panicking /\ writer = t))

\* ------------------------------------------------------------- Init

Init ==
    /\ variant = "none"
    /\ size = 0
    /\ num_hashes = 0
    /\ bit_array = NewArray(0)
    /\ writer = 0
    /\ readers = {}
    /\ poisoned = FALSE
    /\ pc = [t \in Threads |-> "idle"]
    /\ op = [t \in Threads |-> "none"]
    /\ item = [t \in Threads |-> "foo"]
    /\ i = [t \in Threads |-> 0]
    /\ ret = [t \in Threads |-> "none"]
    /\ since = [t \in Threads |-> "none"]
    /\ inserted = {}
    /\ cleared = {}

\* ---------------------------------------------------------- actions

\* BloomFilter::new, ThreadSafeBF::new, AtomicBloomFilter::new: no check of
\* the arguments, the instance is always created.
New(v, s, k) ==
    /\ variant = "none"
    /\ variant' = v
    /\ size' = s
    /\ num_hashes' = k
    /\ bit_array' = NewArray(s)
    /\ UNCHANGED <<writer, readers, poisoned, pc, op, item, i, ret, since,
                   inserted, cleared>>

\* What the borrow checker allows on a BloomFilter: set and reset take
\* `&mut self` (no other call in progress), test takes `&self` (no set or
\* reset in progress).
MutBorrowable(t) == \A u \in Threads \ {t} : pc[u] # "run"
SharedBorrowable(t) == \A u \in Threads \ {t} : pc[u] = "run" => op[u] = "test"

Enter(t, o, e) ==
    /\ pc[t] = "idle"
    /\ variant # "none"
    /\ pc' = [pc EXCEPT ![t] = IF variant = "ThreadSafeBF" THEN "wait" ELSE "run"]
    /\ op' = [op EXCEPT ![t] = o]
    /\ item' = [item EXCEPT ![t] = e]
    /\ i' = [i EXCEPT ![t] = 0]
    /\ ret' = [ret EXCEPT ![t] = "none"]

\* A thread calls set(e).
CallSet(t, e) ==
    /\ Enter(t, "set", e)
    /\ variant = "BloomFilter" => MutBorrowable(t)
    /\ since' = [since EXCEPT ![t] = "none"]
    /\ cleared' = {}
    /\ UNCHANGED <<variant, size, num_hashes, bit_array, writer, readers,
                   poisoned, inserted>>

\* A thread calls test(e).
CallTest(t, e) ==
    /\ Enter(t, "test", e)
    /\ variant = "BloomFilter" => SharedBorrowable(t)
    /\ since' = [since EXCEPT ![t] = IF e \in inserted THEN "set"
                                     ELSE IF e \in cleared THEN "reset"
                                     ELSE "none"]
    /\ UNCHANGED <<variant, size, num_hashes, bit_array, writer, readers,
                   poisoned, inserted, cleared>>

\* A thread calls reset(), which only BloomFilter has.
CallReset(t) ==
    /\ variant = "BloomFilter"
    /\ Enter(t, "reset", "foo")
    /\ MutBorrowable(t)
    /\ since' = [since EXCEPT ![t] = "none"]
    /\ UNCHANGED <<variant, size, num_hashes, bit_array, writer, readers,
                   poisoned, inserted, cleared>>

\* The call of thread t ends with result r: its guard, if any, is dropped and
\* its locals go out of scope (i; the argument too, except that of a test,
\* which the properties below relate to the result).
Leave(t, r) ==
    /\ pc' = [pc EXCEPT ![t] = IF r = "panic" THEN "dead" ELSE "idle"]
    /\ ret' = [ret EXCEPT ![t] = r]
    /\ i' = [i EXCEPT ![t] = 0]
    /\ item' = [item EXCEPT ![t] = IF op[t] = "test" THEN item[t] ELSE "foo"]
    /\ Release(t, r = "panic")

\* ThreadSafeBF::set at `self.bf.write()`: blocks until the lock is free; on
\* a poisoned lock the Err arm returns the error string and the guard inside
\* the error is dropped.
AcquireWrite(t) ==
    /\ pc[t] = "wait"
    /\ op[t] = "set"
    /\ WriteGrantable
    /\ IF poisoned
       THEN /\ Leave(t, "Err")
            /\ UNCHANGED bit_array
       ELSE /\ pc' = [pc EXCEPT ![t] = "run"]
            /\ writer' = t
            /\ UNCHANGED <<bit_array, ret, item, i, readers, poisoned>>
    /\ UNCHANGED <<variant, size, num_hashes, op, since, inserted, cleared>>

\* ThreadSafeBF::test at `self.bf.read().unwrap()`: blocks while a writer
\* holds the lock; on a poisoned lock unwrap panics.
AcquireRead(t) ==
    /\ pc[t] = "wait"
    /\ op[t] = "test"
    /\ ReadGrantable
    /\ IF poisoned
       THEN Leave(t, "panic")
       ELSE /\ pc' = [pc EXCEPT ![t] = "run"]
            /\ readers' = readers \cup {t}
            /\ UNCHANGED <<ret, item, i, writer, poisoned>>
    /\ UNCHANGED <<variant, size, num_hashes, bit_array, op, since, inserted,
                   cleared>>

\* One step of set: the next iteration of its loop, or its return.
SetStep(t) ==
    /\ pc[t] = "run"
    /\ op[t] = "set"
    /\ IF ~LoopRuns(i[t])
       THEN /\ Leave(t, IF variant = "ThreadSafeBF" THEN "Ok" ELSE "unit")
            /\ inserted' = inserted \cup {item[t]}
            /\ UNCHANGED bit_array
       ELSE IF HashPanics \/ IndexPanics(bit_array, hash(item[t], i[t]))
       THEN /\ Leave(t, "panic")
            /\ UNCHANGED <<bit_array, inserted>>
       ELSE /\ bit_array' = StoreTrue(bit_array, hash(item[t], i[t]))
            /\ i' = [i EXCEPT ![t] = i[t] + 1]
            /\ UNCHANGED <<pc, ret, item, writer, readers, poisoned, inserted>>
    /\ UNCHANGED <<variant, size, num_hashes, op, since, cleared>>

\* One step of test: the next iteration of its loop, or its return.
TestStep(t) ==
    /\ pc[t] = "run"
    /\ op[t] = "test"
    /\ IF ~LoopRuns(i[t])
       THEN Leave(t, "true")
       ELSE IF HashPanics \/ IndexPanics(bit_array, hash(item[t], i[t]))
       THEN Leave(t, "panic")
       ELSE IF CellUnset(bit_array, hash(item[t], i[t]))
       THEN Leave(t, "false")
       ELSE /\ i' = [i EXCEPT ![t] = i[t] + 1]
            /\ UNCHANGED <<pc, ret, item, writer, readers, poisoned>>
    /\ UNCHANGED <<variant, size, num_hashes, bit_array, op, since,
                   inserted, cleared>>

\* BloomFilter::reset
ResetStep(t) ==
    /\ pc[t] = "run"
    /\ op[t] = "reset"
    /\ bit_array' = FillFalse(bit_array)
    /\ Leave(t, "unit")
    /\ cleared' = cleared \cup inserted
    /\ inserted' = {}
    /\ UNCHANGED <<variant, size, num_hashes, op, since>>

Next ==
    \/ \E v \in Variants, s \in 0..MaxSize, k \in 0..MaxHashes : New(v, s, k)
    \/ \E t \in Threads, e \in Items : CallSet(t, e)
    \/ \E t \in Threads, e \in Items : CallTest(t, e)
    \/ \E t \in Threads : CallReset(t)
    \/ \E t \in Threads : AcquireWrite(t)
    \/ \E t \in Threads : AcquireRead(t)
    \/ \E t \in Threads : SetStep(t)
    \/ \E t \in Threads : TestStep(t)
    \/ \E t \in Threads : ResetStep(t)

Spec == Init /\ [][Next]_vars

\* The threads sharing one ThreadSafeBF, as in test_concurrent_reads_and_writes,
\* under a fair scheduler: a thread that can take the next step of its call
\* (an iteration, the return, or the acquisition of a lock that stays free
\* for it) eventually takes it.  Nothing obliges a thread to make a call, and
\* std's RwLock promises no order among the threads that want it.  The lock
\* is taken and dropped in the same way whatever the item, so one item is
\* enough here.
LockedNext ==
    \/ \E s \in 0..MaxSize, k \in 0..MaxHashes : New("ThreadSafeBF", s, k)
    \/ \E t \in Threads : CallSet(t, "foo")
    \/ \E t \in Threads : CallTest(t, "foo")
    \/ \E t \in Threads : AcquireWrite(t)
    \/ \E t \in Threads : AcquireRead(t)
    \/ \E t \in Threads : SetStep(t)
    \/ \E t \in Threads : TestStep(t)

FairSpec ==
    /\ Init
    /\ [][LockedNext]_vars
    /\ \A t \in Threads :
          /\ WF_vars(AcquireWrite(t))
          /\ WF_vars(AcquireRead(t))
          /\ WF_vars(SetStep(t))
          /\ WF_vars(TestStep(t))

\* ------------------------------------------------------- properties

Constructed == variant # "none"

\* The call of thread t has ended (returned or panicked).
Ended(t) == pc[t] \in {"idle", "dead"} /\ op[t] # "none"

\* The cells set(e) writes.
Positions(e) == {hash(e, n) : n \in 0..(num_hashes - 1)}

AllSet(e) == \A c \in Positions(e) : bit_array[c]

\* C1. No false negatives: in every store variant with size > 0, a test(e)
\* that began after a set(e) had returned, with no reset in between, returns
\* true, whatever the other threads do meanwhile.
C1_NoFalseNegatives ==
    (Constructed /\ size > 0) =>
        \A t \in Threads :
            (op[t] = "test" /\ since[t] = "set" /\ Ended(t)) => ret[t] = "true"

\* A lock-free test of an inserted item has returned true while another
\* thread was in the middle of a set.
C1_Witness ==
    /\ variant = "AtomicBloomFilter"
    /\ num_hashes >= 2
    /\ \E t, u \in Threads :
          /\ op[t] = "test" /\ since[t] = "set" /\ ret[t] = "true"
          /\ pc[u] = "run" /\ op[u] = "set" /\ i[u] = 1

\* C2. In ThreadSafeBF the lock is held by one writer or by readers, never
\* both; a set runs its loop alone, so no test reads the array and no other
\* set writes it between a set's first and last bit write; and whenever a
\* reader holds the lock the array holds exactly the bits of the set calls
\* that have returned: all of the bits of each, never some of them.
C2_LockedGroupAtomic ==
    variant = "ThreadSafeBF" =>
        /\ writer # 0 => readers = {}
        /\ \A t \in Threads :
              /\ (pc[t] = "run" /\ op[t] = "set") =>
                    /\ writer = t
                    /\ \A u \in Threads \ {t} : pc[u] # "run"
              /\ (pc[t] = "run" /\ op[t] = "test") => t \in readers
              /\ t \in readers => pc[t] = "run" /\ op[t] = "test"
        /\ (readers # {} /\ size > 0) =>
              \A c \in DOMAIN bit_array :
                  bit_array[c] <=> (\E e \in inserted : c \in Positions(e))

\* Two readers hold the lock at once, after a set of several bits, while
\* nobody writes.
C2_Witness ==
    /\ variant = "ThreadSafeBF"
    /\ num_hashes >= 2
    /\ Cardinality(readers) >= 2
    /\ \E e \in inserted : Cardinality(Positions(e)) >= 2

\* C3 as stated, on filters that have cells. In AtomicBloomFilter a test(e)
\* returns true only once some bit for e has been written.
C3_TrueOnlyAfterABit ==
    (variant = "AtomicBloomFilter" /\ size > 0) =>
        \A t \in Threads :
            (op[t] = "test" /\ ret[t] = "true") =>
                \E c \in Positions(item[t]) : bit_array[c]

\* C3, amended. In AtomicBloomFilter with num_hashes > 0 a test(e) returns
\* true only once the bits for e have been written: each of e's k cells, so
\* at least one, is true.  (With num_hashes = 0 there is no bit for e and
\* test returns true all the same.)
C3_TrueOnlyAfterBits ==
    (variant = "AtomicBloomFilter" /\ num_hashes > 0) =>
        \A t \in Threads :
            (op[t] = "test" /\ ret[t] = "true") =>
                /\ Positions(item[t]) # {}
                /\ AllSet(item[t])

\* A lock-free test has returned true for an item no set of which had
\* returned when it began: other items' bits, or a set still in flight,
\* completed its cells.
C3_Witness ==
    /\ variant = "AtomicBloomFilter"
    /\ num_hashes > 0
    /\ \E t \in Threads :
          op[t] = "test" /\ ret[t] = "true" /\ since[t] = "none"

\* Thread t returns r from its call in this step.
Returns(t, r) == pc[t] # "idle" /\ pc'[t] = "idle" /\ ret'[t] = r

\* C4. In AtomicBloomFilter a test(e) returns false only in a step in which
\* it loads one of e's k cells and that cell is false at that moment, also
\* when a set(e) is in flight; and a test(e) that began after a set(e) had
\* returned returns true.
C4_FalseOnlyOnUnsetCell ==
    /\ [][\A t \in Threads :
            (variant = "AtomicBloomFilter" /\ op[t] = "test"
                 /\ Returns(t, "false")) =>
                /\ LoopRuns(i[t])
                /\ size > 0
                /\ ~bit_array[hash(item[t], i[t])]]_vars
    /\ [](variant = "AtomicBloomFilter" =>
            \A t \in Threads :
                (op[t] = "test" /\ since[t] = "set" /\ Ended(t)) =>
                    ret[t] = "true")

\* A lock-free test(e) has loaded e's first cell as true and stands before
\* e's second cell, which the set(e) in flight has not written yet: it
\* observes a partial insertion and will return false.
C4_Witness ==
    /\ variant = "AtomicBloomFilter"
    /\ \E t, u \in Threads :
          /\ pc[t] = "run" /\ op[t] = "test" /\ i[t] = 1
          /\ pc[u] = "run" /\ op[u] = "set" /\ i[u] = 1
          /\ item[u] = item[t]
          /\ LoopRuns(1)
          /\ bit_array[hash(item[t], 0)]
          /\ ~bit_array[hash(item[t], 1)]

\* Some thread is inside reset().
Resetting == \E t \in Threads : pc[t] = "run" /\ op[t] = "reset"

\* C5. Bit monotonicity: in every variant no step other than the fill of
\* BloomFilter::reset turns a true cell false.
C5_BitMonotonic ==
    [][~Resetting =>
          \A c \in DOMAIN bit_array : bit_array[c] => bit_array'[c]]_vars

\* A set is storing again into a cell that an earlier set made true.
C5_Witness ==
    \E t \in Threads :
        /\ pc[t] = "run" /\ op[t] = "set" /\ i[t] > 0
        /\ item[t] \in inserted
        /\ \E u \in Threads \ {t} : op[u] = "test" /\ ret[u] = "true"

\* C6. new(0, k) creates no instance, so no set or test reaches the modulo
\* by zero of the hash step.
C6_ZeroSizeRejected ==
    /\ Constructed => size > 0
    /\ \A t \in Threads : pc[t] # "dead"

\* C7. ThreadSafeBF::set returns Err when the lock is poisoned, leaving the
\* array as it was, and otherwise sets e's k bits and returns Ok(()).
C7_SetOkOrErr ==
    variant = "ThreadSafeBF" =>
        \A t \in Threads :
            (op[t] = "set" /\ Ended(t)) =>
                /\ ret[t] \in {"Ok", "Err"}
                /\ ret[t] = "Err" => poisoned

\* The part of C7 about the poisoned lock, which the code satisfies: a set
\* that finds the lock poisoned returns Err and changes no cell.
C7_PoisonedSetErr ==
    [][\A t \in Threads :
          (variant = "ThreadSafeBF" /\ pc[t] = "wait" /\ op[t] = "set"
               /\ poisoned /\ pc'[t] # "wait") =>
              /\ Returns(t, "Err")
              /\ bit_array' = bit_array]_vars

\* C8. ThreadSafeBF::test on a poisoned lock returns an error or an answer;
\* it does not panic.
C8_PoisonedTestNoPanic ==
    [][\A t \in Threads :
          (variant = "ThreadSafeBF" /\ pc[t] = "wait" /\ op[t] = "test"
               /\ poisoned) => pc'[t] # "dead"]_vars

\* C9 as stated, on filters that have cells. After reset() every cell is
\* false and test(e) returns false for every previously inserted e, for
\* every configuration.
C9_ResetComplete ==
    (variant = "BloomFilter" /\ size > 0) =>
        /\ cleared # {} => \A c \in DOMAIN bit_array : ~bit_array[c]
        /\ \A t \in Threads :
              (op[t] = "test" /\ since[t] = "reset" /\ Ended(t)) =>
                  ret[t] = "false"

\* C9, amended. After reset() every cell is false, and for every
\* configuration with num_hashes > 0 test(e) returns false for every
\* previously inserted e.
C9_ResetCompleteWithHashes ==
    variant = "BloomFilter" =>
        /\ cleared # {} => \A c \in DOMAIN bit_array : ~bit_array[c]
        /\ num_hashes > 0 =>
              \A t \in Threads :
                  (op[t] = "test" /\ since[t] = "reset" /\ Ended(t)) =>
                      ret[t] = "false"

\* After set(e) and reset(), a test(e) has returned false on a filter with
\* hashes.
C9_Witness ==
    /\ variant = "BloomFilter"
    /\ num_hashes > 0
    /\ \E t \in Threads :
          op[t] = "test" /\ since[t] = "reset" /\ ret[t] = "false"

\* C10. With num_hashes = 0, in every variant, every test returns true (on
\* a fresh, a used and a reset filter alike) and no cell is ever set.
C10_DegenerateZeroHashes ==
    (Constructed /\ num_hashes = 0) =>
        /\ \A c \in DOMAIN bit_array : ~bit_array[c]
        /\ \A t \in Threads : (op[t] = "test" /\ Ended(t)) => ret[t] = "true"

\* With num_hashes = 0 and cells to set, a set has returned and a test of
\* an item that was never inserted has returned true.
C10_Witness ==
    /\ num_hashes = 0
    /\ size > 0
    /\ inserted # {}
    /\ \E t \in Threads :
          /\ op[t] = "test" /\ ret[t] = "true"
          /\ item[t] \notin inserted

\* There are cells and every one of them is true.
Saturated == size > 0 /\ \A c \in DOMAIN bit_array : bit_array[c]

\* C11. Saturation: while every cell is true no test of any element returns
\* false or panics; on a filter built with new(1, 1) (or with more hashes)
\* the only cell is true from the first store of a set on, until a reset, so
\* every test that begins after a set has returned returns true.
C11_Saturation ==
    /\ [][\A t \in Threads :
            (Saturated /\ op[t] = "test" /\ pc[t] = "run" /\ pc'[t] # "run") =>
                Returns(t, "true")]_vars
    /\ []((size = 1 /\ num_hashes >= 1) =>
            /\ inserted # {} => Saturated
            /\ \A t \in Threads :
                  (pc[t] = "run" /\ op[t] = "set" /\ i[t] > 0) => Saturated)

\* On a filter built with new(1, 1), after a set of one element has
\* returned, a test of the other element has returned true.
C11_Witness ==
    /\ size = 1
    /\ num_hashes = 1
    /\ Saturated
    /\ inserted # {}
    /\ \E t \in Threads :
          op[t] = "test" /\ ret[t] = "true" /\ item[t] \notin inserted

\* No set is between its call and its return.
NoSetInFlight == \A u \in Threads : ~(op[u] = "set" /\ pc[u] \in {"wait", "run"})

\* The cells written by the sets that have returned since the last reset.
Covered == UNION {Positions(e) : e \in inserted}

\* C12 as stated, on filters with cells and hashes. After a set S of
\* elements has been inserted (and with no set in flight), a test(x) of an
\* element x that is not in S returns false.
C12_NoFalsePositive ==
    (Constructed /\ size > 0 /\ num_hashes > 0) =>
        \A t \in Threads :
            (op[t] = "test" /\ Ended(t) /\ since[t] = "none"
                 /\ inserted # {} /\ item[t] \notin inserted
                 /\ NoSetInFlight) => ret[t] = "false"

\* C12, amended. After a set S of elements has been inserted (no set in
\* flight), a test(x) of an element x that is not in S returns false exactly
\* when one of x's k cells is none of the cells of the elements of S, and
\* true (a false positive) when the cells of S cover those of x.
C12_FalseIffUncovered ==
    [][\A t \in Threads :
          (Constructed /\ size > 0 /\ op[t] = "test" /\ pc[t] = "run"
               /\ pc'[t] # "run" /\ item[t] \notin inserted
               /\ NoSetInFlight) =>
              /\ Returns(t, "false") \/ Returns(t, "true")
              /\ Returns(t, "false") <=>
                    (\E c \in Positions(item[t]) : c \notin Covered)]_vars

\* A false positive on a filter of two cells: with "baz" inserted, whose two
\* cells cover the cell of "foo", a test of "foo" has returned true.
C12_Witness ==
    /\ size = 2
    /\ num_hashes = 2
    /\ NoSetInFlight
    /\ inserted # {}
    /\ \E t \in Threads :
          /\ op[t] = "test" /\ ret[t] = "true" /\ since[t] = "none"
          /\ item[t] \notin inserted
          /\ Positions(item[t]) \subseteq Covered

\* At most one thread has ever made a call.
SingleThreaded == Cardinality({t \in Threads : op[t] # "none"}) <= 1

\* What a BloomFilter holds after the sets that have returned since its last
\* reset, and what its test answers on that array.
BloomFilterArray ==
    [c \in 0..(size - 1) |->
        \E e \in inserted, n \in 0..(num_hashes - 1) : BloomFilter_hash(e, n) = c]

BloomFilterAnswer(e) ==
    IF num_hashes = 0 THEN "true"
    ELSE IF size = 0 THEN "panic"
    ELSE IF \A n \in 0..(num_hashes - 1) : BloomFilterArray[BloomFilter_hash(e, n)]
    THEN "true"
    ELSE "false"

\* C13. For the same (size, num_hashes) and the same single-threaded
\* sequence of set and test calls the three variants hold the same array
\* after each call and give the same answer to each test: in each variant
\* the array is the one BloomFilter holds after these sets, and the answer
\* the one BloomFilter gives on it.
C13_SameContract ==
    (Constructed /\ SingleThreaded) =>
        \A t \in Threads :
            Ended(t) =>
                /\ bit_array = BloomFilterArray
                /\ op[t] = "test" => ret[t] = BloomFilterAnswer(item[t])

\* A single thread has inserted an element into an AtomicBloomFilter of two
\* cells and two hashes and a test of the other element has returned false.
C13_Witness ==
    /\ variant = "AtomicBloomFilter"
    /\ SingleThreaded
    /\ size = 2
    /\ num_hashes = 2
    /\ inserted # {}
    /\ \E t \in Threads : op[t] = "test" /\ ret[t] = "false"

\* C14. In the exclusive store with size > 0 a test(e) ends by returning
\* true or false; it returns true exactly when every cell at the positions
\* hash(e, 0) .. hash(e, k-1) is true in the array, and it returns false at
\* the first position whose cell is not.
C14_TestIffAllSet ==
    [][\A t \in Threads :
          (variant = "BloomFilter" /\ size > 0 /\ op[t] = "test"
               /\ pc[t] = "run" /\ pc'[t] # "run") =>
              /\ Returns(t, "true") \/ Returns(t, "false")
              /\ Returns(t, "true") <=> AllSet(item[t])
              /\ Returns(t, "false") =>
                    /\ LoopRuns(i[t])
                    /\ ~bit_array[hash(item[t], i[t])]
                    /\ \A n \in 0..(i[t] - 1) : bit_array[hash(item[t], n)]]_vars

\* On an exclusive store of two cells and two hashes holding "foo", a test
\* of "baz" has returned false and a test of "foo" has returned true.
C14_Witness ==
    /\ variant = "BloomFilter"
    /\ size = 2
    /\ num_hashes = 2
    /\ inserted # {}
    /\ \E t, u \in Threads :
          /\ op[t] = "test" /\ ret[t] = "false" /\ ~AllSet(item[t])
          /\ op[u] = "test" /\ ret[u] = "true" /\ AllSet(item[u])

\* The call of thread t takes this step.
Steps(t) == pc'[t] # pc[t] \/ i'[t] # i[t] \/ op'[t] # op[t] \/ ret'[t] # ret[t]

\* C15. Frame of set: in every variant a step of set(e) changes at most the
\* cell at the position hash(e, i) it is at, one of e's k positions, and
\* only from false to true; no step of set, test or any call changes the
\* length of the array, size or num_hashes, and no step of test (nor of a
\* call, a lock acquisition or a return) changes a cell.
C15_SetFrame ==
    [][Constructed =>
          /\ size' = size
          /\ num_hashes' = num_hashes
          /\ DOMAIN bit_array' = DOMAIN bit_array
          /\ ~Resetting =>
                \A c \in DOMAIN bit_array :
                    bit_array'[c] # bit_array[c] =>
                        /\ bit_array'[c]
                        /\ \E t \in Threads :
                              /\ Steps(t)
                              /\ pc[t] = "run" /\ op[t] = "set"
                              /\ LoopRuns(i[t])
                              /\ c = hash(item[t], i[t])
                              /\ c \in Positions(item[t])]_vars

\* In an AtomicBloomFilter of two cells a set of "foo", whose positions are
\* cell 1 only, has returned while the other thread is inside a call, and
\* cell 0 is still false.
C15_Witness ==
    /\ variant = "AtomicBloomFilter"
    /\ size = 2
    /\ num_hashes >= 1
    /\ inserted = {"foo"}
    /\ bit_array[1] /\ ~bit_array[0]
    /\ \E u \in Threads : pc[u] = "run"

\* C16. Index safety: a constructed filter's array has exactly size cells,
\* and with size > 0 every index hash(e, i) that set or test uses, for every
\* element and every i in [0, num_hashes), lies in [0, size), so that no
\* call panics on an index out of range.
C16_IndexSafety ==
    Constructed =>
        /\ DOMAIN bit_array = 0..(size - 1)
        /\ size > 0 =>
              /\ \A e \in Items : \A n \in 0..(num_hashes - 1) :
                    /\ hash(e, n) \in 0..(size - 1)
                    /\ ~IndexPanics(bit_array, hash(e, n))
              /\ \A t \in Threads : pc[t] # "dead" /\ ret[t] # "panic"

\* A set and a test have each walked all the positions of their element on a
\* filter of two cells and two hashes.
C16_Witness ==
    /\ size = 2
    /\ num_hashes = 2
    /\ \E t, u \in Threads :
          /\ op[t] = "set" /\ Ended(t)
          /\ op[u] = "test" /\ ret[u] = "true"

\* The cells of the sets in flight: those already stored by them.
InFlightStored ==
    UNION {{hash(item[u], n) : n \in 0..(i[u] - 1)} :
              u \in {v \in Threads : op[v] = "set" /\ pc[v] = "run"}}

\* C17. Set is idempotent and commutative: a step of a set(e) whose element
\* has already been inserted leaves the array as it is, and in an
\* AtomicBloomFilter, whatever the interleaving of the stores of the set
\* calls, the true cells are exactly the positions stored so far, so that
\* once the calls have returned the array is the initial, all-false array
\* with exactly the union of the elements' hash positions set to true.
C17_SetIdempotentCommutative ==
    /\ [][\A t \in Threads :
            (Constructed /\ pc[t] = "run" /\ op[t] = "set" /\ Steps(t)
                 /\ item[t] \in inserted) => bit_array' = bit_array]_vars
    /\ []((variant = "AtomicBloomFilter" /\ size > 0) =>
            \A c \in DOMAIN bit_array :
                bit_array[c] <=> c \in (Covered \cup InFlightStored))

\* Two threads have inserted the two elements concurrently into an
\* AtomicBloomFilter of two cells and two hashes, one of them is inserting
\* its element again, and the array holds the union of their positions.
C17_Witness ==
    /\ variant = "AtomicBloomFilter"
    /\ size = 2
    /\ num_hashes = 2
    /\ inserted = Items
    /\ \A c \in DOMAIN bit_array : bit_array[c]
    /\ \E t \in Threads :
          pc[t] = "run" /\ op[t] = "set" /\ i[t] = 1 /\ item[t] \in inserted

\* C18. The lock-free store never blocks: a thread inside an
\* AtomicBloomFilter call never waits and can always take its next step,
\* whatever the other threads do; each of its steps that does not end the
\* call is one store or load at the index i < num_hashes and advances i by
\* one, so the call ends after at most num_hashes of them; and a step of
\* another thread leaves its progress as it is.
C18_LockFreeBounded ==
    /\ [](variant = "AtomicBloomFilter" =>
            \A t \in Threads :
                /\ pc[t] # "wait"
                /\ i[t] <= num_hashes
                /\ pc[t] = "run" => ENABLED (SetStep(t) \/ TestStep(t)))
    /\ [][variant = "AtomicBloomFilter" =>
            /\ Cardinality({t \in Threads : Steps(t)}) <= 1
            /\ \A t \in Threads :
                  (pc[t] = "run" /\ Steps(t)) =>
                      \/ pc'[t] # "run"
                      \/ i[t] < num_hashes /\ i'[t] = i[t] + 1]_vars

\* Every thread is inside an AtomicBloomFilter call at once, one of them at
\* its last index.
C18_Witness ==
    /\ variant = "AtomicBloomFilter"
    /\ num_hashes >= 2
    /\ \A t \in Threads : pc[t] = "run"
    /\ \E t \in Threads : i[t] = num_hashes

\* Thread t holds a guard of the lock.
Holds(t) == writer = t \/ t \in readers

\* C19 as stated, its last part: under fair scheduling every pending set or
\* test call on a ThreadSafeBF eventually acquires the lock or fails.
C19_EveryPendingCallAcquires ==
    \A t \in Threads : (pc[t] = "wait") ~> (pc[t] # "wait")

\* C19, amended. Whenever a ThreadSafeBF set or test call has ended
\* (returned Ok, returned Err, or panicked) its thread holds no guard; no
\* deadlock is reachable: while a call is pending either the lock can be
\* granted to it or a call that holds the lock can take its next step; and
\* under fair scheduling every call that holds the lock ends and drops its
\* guard.  (A pending call can still be overtaken for ever by calls that
\* keep taking the lock.)
C19_LockReleased ==
    /\ [](\A t \in Threads : pc[t] \in {"idle", "dead"} => ~Holds(t))
    /\ [](\A t \in Threads :
            pc[t] = "wait" =>
                \/ ENABLED (AcquireWrite(t) \/ AcquireRead(t))
                \/ \E u \in Threads :
                      /\ Holds(u)
                      /\ pc[u] = "run"
                      /\ ENABLED (SetStep(u) \/ TestStep(u)))
    /\ \A t \in Threads : Holds(t) ~> ~Holds(t)

\* A set has panicked inside its critical section, poisoning the lock, a
\* later set has returned Err, and the lock is free.
C19_Witness ==
    /\ variant = "ThreadSafeBF"
    /\ poisoned
    /\ writer = 0 /\ readers = {}
    /\ \E t, u \in Threads :
          /\ pc[t] = "dead" /\ op[t] = "set" /\ ret[t] = "panic"
          /\ pc[u] = "idle" /\ ret[u] = "Err"

====
